---------------------------- MODULE Spec2Model ----------------------------
(***************************************************************************)
(* A model of native/plugins/ios/IAACHelper.h: the bridge helpers between  *)
(* the native iOS layer and the scripting engine.                           *)
(*                                                                         *)
(*   Part I   DispatchToMainThread: threads, call stacks, the main queue.   *)
(*   Part II  CreateNSString / CStringCopy / SeValueToNSString.             *)
(*   Part III DictionaryToJSON / JSONToDictionary over a JSON codec.        *)
(***************************************************************************)
EXTENDS Integers, Sequences, FiniteSets, TLC

(***************************************************************************)
(* Bounds of the model.                                                    *)
(***************************************************************************)
\* Number of blocks (callbacks) handed to DispatchToMainThread in one run.
MaxBlocks == 3

\* Longest byte string and longest NSString given to the string conversions.
MaxLen == 3

\* Longest array inside a dictionary given to the JSON conversions.
MaxElems == 2

\* Longest text of arbitrary bytes given to JSONToDictionary.
MaxText == 3

VARIABLES
    stack,      \* stack[t]: the call stack of thread t, innermost frame last
    queue,      \* the main dispatch queue: blocks enqueued and not yet started
    nblocks,    \* number of blocks created so far
    caller,     \* history: caller[b] is the thread that submitted block b
    trace,      \* history: the enqueues and callback starts, in order
    ended,      \* history: the blocks whose body has run to completion
    returned,   \* history: the blocks whose DispatchToMainThread call returned
    fn,         \* the conversion function last called ("none" before any call)
    arg,        \* its argument
    out         \* how the call ended: [raised, val, logs]

dvars == <<stack, queue, nblocks, caller, trace, ended, returned>>

cvars == <<fn, arg, out>>

vars == <<stack, queue, nblocks, caller, trace, ended, returned, fn, arg, out>>

(***************************************************************************)
(* Part I.  DispatchToMainThread                                           *)
(***************************************************************************)
MainThread == "main"

Workers == {"w1", "w2"}

Threads == {MainThread} \cup Workers

Blocks == 1 .. MaxBlocks

\* [NSThread isMainThread], evaluated on thread t.
isMainThread(t) == t = MainThread

Frame(k, b, pc) == [k |-> k, b |-> b, pc |-> pc]

Top(t) == stack[t][Len(stack[t])]

Push(t, f) == [stack EXCEPT ![t] = Append(@, f)]

Pop(t) == [stack EXCEPT ![t] = SubSeq(@, 1, Len(@) - 1)]

\* Replace the innermost frame of t by f, then push g on top of it.
SetTopAndPush(t, f, g) ==
    [stack EXCEPT ![t] = Append(SubSeq(@, 1, Len(@) - 1), f) \o <<g>>]

SetTop(t, f) == [stack EXCEPT ![t] = Append(SubSeq(@, 1, Len(@) - 1), f)]

Event(e, b, t) == [e |-> e, b |-> b, t |-> t]

\* block(): the callback starts executing on thread t, inside the caller's frame.
InvokeBlock(t) ==
    /\ stack' = SetTopAndPush(t, Frame("dispatch", Top(t).b, "invoked"),
                                 Frame("block", Top(t).b, "body"))
    /\ trace' = Append(trace, Event("run", Top(t).b, t))
    /\ UNCHANGED <<queue, nblocks, caller, ended, returned, cvars>>

\* dispatch_async(dispatch_get_main_queue(), block): append and go on.
dispatch_async(t) ==
    /\ queue' = Append(queue, Top(t).b)
    /\ stack' = SetTop(t, Frame("dispatch", Top(t).b, "enqueued"))
    /\ trace' = Append(trace, Event("enq", Top(t).b, t))
    /\ UNCHANGED <<nblocks, caller, ended, returned, cvars>>

\* Variants of the body a slip in the code would produce.
DispatchBody_AlwaysAsync(t) == dispatch_async(t)

DispatchBody_AlwaysInvoke(t) == InvokeBlock(t)

\* dispatch_sync instead of a direct call on the main thread: the caller
\* enqueues the block and waits for the queue it is itself serving.
DispatchBody_SyncOnMain(t) ==
    IF isMainThread(t)
    THEN /\ queue' = Append(queue, Top(t).b)
         /\ stack' = SetTop(t, Frame("dispatch", Top(t).b, "waiting"))
         /\ trace' = Append(trace, Event("enq", Top(t).b, t))
         /\ UNCHANGED <<nblocks, caller, ended, returned, cvars>>
    ELSE dispatch_async(t)

\* The asynchronous branch putting the block at the front of the queue.
DispatchBody_Lifo(t) ==
    IF isMainThread(t)
    THEN InvokeBlock(t)
    ELSE /\ queue' = <<Top(t).b>> \o queue
         /\ stack' = SetTop(t, Frame("dispatch", Top(t).b, "enqueued"))
         /\ trace' = Append(trace, Event("enq", Top(t).b, t))
         /\ UNCHANGED <<nblocks, caller, ended, returned, cvars>>

\* The body of DispatchToMainThread, run by thread t whose innermost frame
\* is the call.
DispatchBody(t) ==
    IF isMainThread(t)
    THEN InvokeBlock(t)
    ELSE dispatch_async(t)

\* Thread t can call DispatchToMainThread: a worker from its own code, the
\* main thread from application code or from inside a running callback.
CanCall(t) ==
    \/ t # MainThread /\ stack[t] = <<>>
    \/ stack[t] # <<>> /\ Top(t).k \in {"app", "block"}

\* Thread t calls DispatchToMainThread with a new block.
Call(t) ==
    /\ nblocks < MaxBlocks
    /\ CanCall(t)
    /\ nblocks' = nblocks + 1
    /\ stack' = Push(t, Frame("dispatch", nblocks + 1, "check"))
    /\ caller' = [caller EXCEPT ![nblocks + 1] = t]
    /\ UNCHANGED <<queue, trace, ended, returned, cvars>>

\* Thread t executes the if/else of DispatchToMainThread.
DispatchToMainThread(t) ==
    /\ stack[t] # <<>>
    /\ Top(t).k = "dispatch"
    /\ Top(t).pc = "check"
    /\ DispatchBody(t)

\* The callback running on thread t finishes.
BlockEnd(t) ==
    /\ stack[t] # <<>>
    /\ Top(t).k = "block"
    /\ stack' = Pop(t)
    /\ ended' = ended \cup {Top(t).b}
    /\ UNCHANGED <<queue, nblocks, caller, trace, returned, cvars>>

\* DispatchToMainThread returns to its caller on thread t.
Return(t) ==
    /\ stack[t] # <<>>
    /\ Top(t).k = "dispatch"
    /\ Top(t).pc \in {"invoked", "enqueued"}
    /\ stack' = Pop(t)
    /\ returned' = returned \cup {Top(t).b}
    /\ UNCHANGED <<queue, nblocks, caller, trace, ended, cvars>>

\* The main thread starts a piece of application work (it is busy).
AppStart ==
    /\ stack[MainThread] = <<>>
    /\ stack' = Push(MainThread, Frame("app", 0, "body"))
    /\ UNCHANGED <<queue, nblocks, caller, trace, ended, returned, cvars>>

\* The main thread's application work ends; control is back in the run loop.
AppEnd ==
    /\ stack[MainThread] # <<>>
    /\ Top(MainThread).k = "app"
    /\ stack' = Pop(MainThread)
    /\ UNCHANGED <<queue, nblocks, caller, trace, ended, returned, cvars>>

\* The main run loop, idle, takes the block at the head of the main queue
\* and starts it.
Drain ==
    /\ stack[MainThread] = <<>>
    /\ queue # <<>>
    /\ queue' = Tail(queue)
    /\ stack' = Push(MainThread, Frame("block", Head(queue), "body"))
    /\ trace' = Append(trace, Event("run", Head(queue), MainThread))
    /\ UNCHANGED <<nblocks, caller, ended, returned, cvars>>

DInit ==
    /\ stack = [t \in Threads |-> <<>>]
    /\ queue = <<>>
    /\ nblocks = 0
    /\ caller = [b \in Blocks |-> "none"]
    /\ trace = <<>>
    /\ ended = {}
    /\ returned = {}

(***************************************************************************)
(* Part II.  Strings                                                       *)
(*                                                                         *)
(* A pointer or object reference is a sequence of length at most one: the  *)
(* empty sequence is NULL / nil, <<x>> refers to x.  A C buffer is          *)
(* [addr, mem]: where it lives and the bytes from the pointer on.  An       *)
(* NSString is the sequence of its characters.  Characters are "a", the     *)
(* two-byte "U+00E9" (bytes xC3 xA9) and U+0000 (byte NUL); xFF, a lone xC3 *)
(* and a lone xA9 are not UTF-8.                                            *)
(***************************************************************************)
NULL == <<>>

nil == <<>>

Ref(x) == <<x>>

Deref(p) == p[1]

NUL == "NUL"

\* Characters that are one byte in UTF-8, the byte being written the same.
IsAsciiByte(b) == b \notin {"xC3", "xA9", "xFF", "U+00E9"}

\* strlen: the number of bytes before the first NUL.
strlen(mem) ==
    CHOOSE n \in 0 .. Len(mem) - 1 :
        /\ mem[n + 1] = NUL
        /\ \A i \in 1 .. n : mem[i] # NUL

\* The C string a buffer holds: its bytes up to the first NUL.
CStr(mem) == SubSeq(mem, 1, strlen(mem))

\* Well-formed UTF-8: every byte is a one-byte character, the xC3 of an
\* xC3 xA9 pair, or the xA9 of one.
Utf8Valid(bytes) ==
    \A i \in DOMAIN bytes :
        \/ IsAsciiByte(bytes[i])
        \/ bytes[i] = "xC3" /\ i < Len(bytes) /\ bytes[i + 1] = "xA9"
        \/ bytes[i] = "xA9" /\ i > 1 /\ bytes[i - 1] = "xC3"

\* The characters of well-formed UTF-8, by halves cut between characters.
RECURSIVE Utf8Chars(_)
Utf8Chars(bytes) ==
    IF Len(bytes) <= 1 THEN bytes
    ELSE IF Len(bytes) = 2 /\ bytes[1] = "xC3" THEN <<"U+00E9">>
    ELSE LET h == Len(bytes) \div 2
             m == IF bytes[h + 1] = "xA9" THEN h + 1 ELSE h
         IN  Utf8Chars(SubSeq(bytes, 1, m)) \o Utf8Chars(SubSeq(bytes, m + 1, Len(bytes)))

\* Decoding UTF-8: the string, or nil when the bytes are not UTF-8.
Utf8Decode(bytes) == IF Utf8Valid(bytes) THEN Ref(Utf8Chars(bytes)) ELSE nil

\* The UTF-8 bytes of a string, by halves.
RECURSIVE Utf8Encode(_)
Utf8Encode(chars) ==
    IF chars = <<>> THEN <<>>
    ELSE IF Len(chars) = 1
         THEN IF chars[1] = "U+00E9" THEN <<"xC3", "xA9">> ELSE chars
    ELSE LET h == Len(chars) \div 2
         IN  Utf8Encode(SubSeq(chars, 1, h)) \o Utf8Encode(SubSeq(chars, h + 1, Len(chars)))

\* [NSString stringWithUTF8String:p], p not NULL: reads up to the first NUL.
stringWithUTF8String(p) == Utf8Decode(CStr(Deref(p).mem))

\* [string UTF8String]: the string's own NUL-terminated UTF-8 buffer.
UTF8String(string) ==
    Ref([addr |-> "strbuf", mem |-> Utf8Encode(Deref(string)) \o <<NUL>>])

CreateNSString(string) ==
    IF string # NULL THEN stringWithUTF8String(string) ELSE nil

\* malloc(strlen(utf8String)) + strcpy: one byte short, the terminator
\* lands outside the allocation and the copy keeps strlen - 1 bytes.
CStringCopy_ShortAlloc(string, fresh) ==
    IF string = nil THEN NULL
    ELSE LET utf8String == UTF8String(string)
             n == strlen(Deref(utf8String).mem)
         IN  Ref([addr |-> fresh,
                  mem |-> SubSeq(Deref(utf8String).mem, 1,
                                 IF n > 0 THEN n - 1 ELSE 0) \o <<NUL>>])

\* CStringCopy; fresh is the address malloc returns.
CStringCopy(string, fresh) ==
    IF string = nil THEN NULL
    ELSE LET utf8String == UTF8String(string)
             n == strlen(Deref(utf8String).mem)
             res == [addr |-> fresh, mem |-> [i \in 1 .. n + 1 |-> NUL]]
         IN  Ref([res EXCEPT !.mem = CStr(Deref(utf8String).mem) \o <<NUL>>])

\* The addresses malloc can return: never that of a live buffer.
HeapAddrs == {"h1", "h2"}

\* se::Value: its type tag, the std::string of a String, the se::Object* of
\* an Object (possibly null).
SeValue(type, str, obj) == [type |-> type, str |-> str, obj |-> obj]

isString(val) == val.type = "String"

isObject(val) == val.type = "Object"

\* val.toString().c_str(): the std::string's bytes and a terminating NUL.
c_str(val) == Ref([addr |-> "stdstr", mem |-> val.str \o <<NUL>>])

toObject(val) == val.obj

isFunction(obj) == Deref(obj).function

JSFunctionText == <<"[", "J", "S", " ", "F", "u", "n", "c", "t", "i", "o", "n", "]">>

JSObjectText == <<"[", "J", "S", " ", "O", "b", "j", "e", "c", "t", "]">>

UnknownJSValueText ==
    <<"[", "U", "n", "k", "n", "o", "w", "n", " ", "J", "S", " ",
      "V", "a", "l", "u", "e", "]">>

SeValueToNSString(val) ==
    IF isString(val) THEN CreateNSString(c_str(val))
    ELSE IF isObject(val)
         THEN LET obj == toObject(val)
              IN  IF obj # NULL /\ isFunction(obj)
                  THEN Ref(JSFunctionText)
                  ELSE Ref(JSObjectText)
    ELSE Ref(UnknownJSValueText)

\* How a call ends: by an uncaught NSException (raised) or by returning
\* val, after logs lines written with NSLog.
Outcome(raised, val, logs) == [raised |-> raised, val |-> val, logs |-> logs]

(***************************************************************************)
(* Part III.  JSON                                                         *)
(*                                                                         *)
(* Foundation objects are records tagged with their class.  A dictionary   *)
(* is a function from its keys (NSStrings) to its values.                  *)
(***************************************************************************)
JNull == [t |-> "NSNull"]

JBool(b) == [t |-> "boolean", b |-> b]

JNum(n) == [t |-> "NSNumber", n |-> n]

\* An NSNumber holding NaN: not representable in JSON.
JNaN == [t |-> "NaN"]

\* An object of a class JSON has no form for.
JDate == [t |-> "NSDate"]

JStr(chars) == [t |-> "NSString", s |-> chars]

JArr(elems) == [t |-> "NSArray", a |-> elems]

JDict(f) == [t |-> "NSDictionary", d |-> f]

EmptyDict == [k \in {} |-> JNull]

DigitChars == <<"0", "1", "2", "3", "4", "5", "6", "7", "8", "9">>

IsDigit(c) == \E d \in DOMAIN DigitChars : DigitChars[d] = c

DigitVal(c) == (CHOOSE d \in DOMAIN DigitChars : DigitChars[d] = c) - 1

RECURSIVE Digits(_)
Digits(n) ==
    IF n < 10 THEN <<DigitChars[n + 1]>>
    ELSE Digits(n \div 10) \o <<DigitChars[(n % 10) + 1]>>

\* +[NSJSONSerialization isValidJSONObject:] below the top level.
RECURSIVE ValidJSONValue(_)
ValidJSONValue(v) ==
    CASE v.t \in {"NSNull", "boolean", "NSNumber", "NSString"} -> TRUE
      [] v.t = "NSArray" -> \A i \in DOMAIN v.a : ValidJSONValue(v.a[i])
      [] v.t = "NSDictionary" -> \A k \in DOMAIN v.d : ValidJSONValue(v.d[k])
      [] OTHER -> FALSE

isValidJSONObject(obj) ==
    /\ obj.t \in {"NSArray", "NSDictionary"}
    /\ ValidJSONValue(obj)

\* The writer's escapes inside a string.
RECURSIVE EscapeString(_)
EscapeString(chars) ==
    IF chars = <<>> THEN <<>>
    ELSE (CASE Head(chars) = "\"" -> <<"\\", "\"">>
            [] Head(chars) = "\\" -> <<"\\", "\\">>
            [] Head(chars) = "/" -> <<"\\", "/">>
            [] Head(chars) = NUL -> <<"\\", "u", "0", "0", "0", "0">>
            [] OTHER -> Utf8Encode(<<Head(chars)>>))
         \o EscapeString(Tail(chars))

WriteString(chars) == <<"\"">> \o EscapeString(chars) \o <<"\"">>

\* The keys a dictionary is written in: an order the writer is free to
\* choose; rev selects one of the two orders of the model's keys.
KeySeq(rev) ==
    IF rev THEN << <<NUL>>, <<"a">> >> ELSE << <<"a">>, <<NUL>> >>

RECURSIVE WriteJSON(_, _)
RECURSIVE WriteElems(_, _)
RECURSIVE WriteMembers(_, _, _)
WriteElems(elems, rev) ==
    IF elems = <<>> THEN <<>>
    ELSE WriteJSON(Head(elems), rev)
         \o (IF Len(elems) > 1 THEN <<",">> ELSE <<>>)
         \o WriteElems(Tail(elems), rev)

WriteMembers(d, ks, rev) ==
    IF ks = <<>> THEN <<>>
    ELSE LET rest == WriteMembers(d, Tail(ks), rev)
         IN  IF Head(ks) \in DOMAIN d
             THEN WriteString(Head(ks)) \o <<":">> \o WriteJSON(d[Head(ks)], rev)
                  \o (IF rest = <<>> THEN <<>> ELSE <<",">>) \o rest
             ELSE rest

\* The JSON text of a valid object, options:0 (compact), as UTF-8 bytes.
WriteJSON(v, rev) ==
    CASE v.t = "NSNull" -> <<"n", "u", "l", "l">>
      [] v.t = "boolean" ->
            IF v.b THEN <<"t", "r", "u", "e">> ELSE <<"f", "a", "l", "s", "e">>
      [] v.t = "NSNumber" -> Digits(v.n)
      [] v.t = "NSString" -> WriteString(v.s)
      [] v.t = "NSArray" -> <<"[">> \o WriteElems(v.a, rev) \o <<"]">>
      [] v.t = "NSDictionary" -> <<"{">> \o WriteMembers(v.d, KeySeq(rev), rev) \o <<"}">>

\* +[NSJSONSerialization dataWithJSONObject:options:error:]: raises
\* NSInvalidArgumentException for an object that is not valid JSON;
\* otherwise returns the data (nil and an error only on an internal error,
\* which no input of the model provokes).
dataWithJSONObject(obj, rev) ==
    IF ~isValidJSONObject(obj)
    THEN [raised |-> TRUE, data |-> nil, error |-> nil]
    ELSE [raised |-> FALSE, data |-> Ref(WriteJSON(obj, rev)), error |-> nil]

\* [[NSString alloc] initWithData:data encoding:NSUTF8StringEncoding]
initWithData(data) == Utf8Decode(Deref(data))

\* [string dataUsingEncoding:NSUTF8StringEncoding]; a message to nil is nil.
dataUsingEncoding(string) ==
    IF string = nil THEN nil ELSE Ref(Utf8Encode(Deref(string)))

DictionaryToJSON(dict, rev, fresh) ==
    IF dict = nil THEN Outcome(FALSE, NULL, 0)
    ELSE LET r == dataWithJSONObject(Deref(dict), rev)
             jsonData == r.data
         IN  IF r.raised THEN Outcome(TRUE, NULL, 0)
             ELSE IF jsonData = nil THEN Outcome(FALSE, NULL, 1)
             ELSE LET jsonString == initWithData(jsonData)
                  IN  Outcome(FALSE, CStringCopy(jsonString, fresh), 0)

(***************************************************************************)
(* The JSON reader.  A parse step returns [ok, v, i]: whether it           *)
(* succeeded, the value read and the index after it.                       *)
(***************************************************************************)
Fail == [ok |-> FALSE, v |-> JNull, i |-> 0]

Ok(v, i) == [ok |-> TRUE, v |-> v, i |-> i]

RECURSIVE SkipWs(_, _)
SkipWs(s, i) == IF i <= Len(s) /\ s[i] = " " THEN SkipWs(s, i + 1) ELSE i

MatchAt(s, i, lit) ==
    /\ i + Len(lit) - 1 <= Len(s)
    /\ SubSeq(s, i, i + Len(lit) - 1) = lit

\* The characters of a string, i being the index after its opening quote.
\* Of the \u escapes only \u0000 occurs in the texts of the model.
RECURSIVE ParseString(_, _, _)
ParseString(s, i, acc) ==
    IF i > Len(s) THEN Fail
    ELSE IF s[i] = "\"" THEN Ok(JStr(Utf8Chars(acc)), i + 1)
    ELSE IF s[i] = NUL THEN Fail
    ELSE IF s[i] = "\\"
         THEN IF i + 1 > Len(s) THEN Fail
              ELSE IF s[i + 1] \in {"\"", "\\", "/"}
                   THEN ParseString(s, i + 2, Append(acc, s[i + 1]))
              ELSE IF s[i + 1] = "u" /\ MatchAt(s, i + 2, <<"0", "0", "0", "0">>)
                   THEN ParseString(s, i + 6, Append(acc, NUL))
              ELSE Fail
    ELSE ParseString(s, i + 1, Append(acc, s[i]))

\* An integer without sign, fraction or exponent (the numbers of the model).
RECURSIVE ParseDigits(_, _, _)
ParseDigits(s, i, n) ==
    IF i <= Len(s) /\ IsDigit(s[i])
    THEN ParseDigits(s, i + 1, 10 * n + DigitVal(s[i]))
    ELSE Ok(JNum(n), i)

ParseNumber(s, i) ==
    IF s[i] = "0" THEN Ok(JNum(0), i + 1) ELSE ParseDigits(s, i, 0)

RECURSIVE ParseValue(_, _)
RECURSIVE ParseArrayTail(_, _, _)
RECURSIVE ParseObjectTail(_, _, _)
\* After "[" or ",": an element, then "," or "]".
ParseArrayTail(s, i, acc) ==
    LET r == ParseValue(s, i)
        j == SkipWs(s, r.i)
    IN  IF ~r.ok \/ j > Len(s) THEN Fail
        ELSE IF s[j] = "," THEN ParseArrayTail(s, j + 1, Append(acc, r.v))
        ELSE IF s[j] = "]" THEN Ok(JArr(Append(acc, r.v)), j + 1)
        ELSE Fail

\* After "{" or ",": a string key, ":", a value, then "," or "}".
ParseObjectTail(s, i, acc) ==
    LET j == SkipWs(s, i)
    IN  IF j > Len(s) \/ s[j] # "\"" THEN Fail
        ELSE LET key == ParseString(s, j + 1, <<>>)
                 c == SkipWs(s, key.i)
             IN  IF ~key.ok \/ c > Len(s) \/ s[c] # ":" THEN Fail
                 ELSE LET r == ParseValue(s, c + 1)
                          e == SkipWs(s, r.i)
                          d == [k \in DOMAIN acc \cup {key.v.s} |->
                                   IF k = key.v.s THEN r.v ELSE acc[k]]
                      IN  IF ~r.ok \/ e > Len(s) THEN Fail
                          ELSE IF s[e] = "," THEN ParseObjectTail(s, e + 1, d)
                          ELSE IF s[e] = "}" THEN Ok(JDict(d), e + 1)
                          ELSE Fail

ParseValue(s, i0) ==
    LET i == SkipWs(s, i0)
    IN  IF i > Len(s) THEN Fail
        ELSE CASE s[i] = "{" ->
                    LET j == SkipWs(s, i + 1)
                    IN  IF j <= Len(s) /\ s[j] = "}" THEN Ok(JDict(EmptyDict), j + 1)
                        ELSE ParseObjectTail(s, i + 1, EmptyDict)
               [] s[i] = "[" ->
                    LET j == SkipWs(s, i + 1)
                    IN  IF j <= Len(s) /\ s[j] = "]" THEN Ok(JArr(<<>>), j + 1)
                        ELSE ParseArrayTail(s, i + 1, <<>>)
               [] s[i] = "\"" -> ParseString(s, i + 1, <<>>)
               [] IsDigit(s[i]) -> ParseNumber(s, i)
               [] MatchAt(s, i, <<"t", "r", "u", "e">>) -> Ok(JBool(TRUE), i + 4)
               [] MatchAt(s, i, <<"f", "a", "l", "s", "e">>) -> Ok(JBool(FALSE), i + 5)
               [] MatchAt(s, i, <<"n", "u", "l", "l">>) -> Ok(JNull, i + 4)
               [] OTHER -> Fail

\* A whole text, options:0: the top-level value must be an array or an
\* object (no fragments) and nothing but white space may follow it.
ParseJSONText(bytes) ==
    LET i == SkipWs(bytes, 1)
    IN  IF i > Len(bytes) \/ bytes[i] \notin {"{", "["} THEN Fail
        ELSE LET r == ParseValue(bytes, i)
             IN  IF r.ok /\ SkipWs(bytes, r.i) = Len(bytes) + 1 THEN r ELSE Fail

\* +[NSJSONSerialization JSONObjectWithData:options:error:]: raises
\* NSInvalidArgumentException when data is nil; otherwise returns the
\* object, or nil with *error set.  error is what the caller's variable
\* holds afterwards.  The header is written for automatic reference
\* counting (DictionaryToJSON never releases the string it allocates), under
\* which the local "NSError* error;" starts nil; it is written only on
\* failure.
JSONObjectWithData(data) ==
    IF data = nil
    THEN [raised |-> TRUE, obj |-> nil, error |-> nil]
    ELSE LET r == ParseJSONText(Deref(data))
         IN  IF r.ok
             THEN [raised |-> FALSE, obj |-> Ref(r.v), error |-> nil]
             ELSE [raised |-> FALSE, obj |-> nil, error |-> Ref("NSError")]

\* [obj isKindOfClass:cls]; a message to nil answers NO.
isKindOfClass(obj, cls) == obj # nil /\ Deref(obj).t = cls

\* The class test written against the wrong class.
JSONToDictionary_WrongClass(jsonString) ==
    IF jsonString = NULL THEN Outcome(FALSE, nil, 0)
    ELSE LET r == JSONObjectWithData(dataUsingEncoding(CreateNSString(jsonString)))
         IN  IF r.raised THEN Outcome(TRUE, nil, 0)
             ELSE IF r.error # nil \/ ~isKindOfClass(r.obj, "NSArray")
                  THEN Outcome(FALSE, nil, 1)
             ELSE Outcome(FALSE, r.obj, 0)

JSONToDictionary(jsonString) ==
    IF jsonString = NULL THEN Outcome(FALSE, nil, 0)
    ELSE LET data == dataUsingEncoding(CreateNSString(jsonString))
             r == JSONObjectWithData(data)
             error == r.error
             jsonObject == r.obj
         IN  IF r.raised THEN Outcome(TRUE, nil, 0)
             ELSE IF error # nil \/ ~isKindOfClass(jsonObject, "NSDictionary")
                  THEN Outcome(FALSE, nil, 1)
             ELSE Outcome(FALSE, jsonObject, 0)

(***************************************************************************)
(* The inputs of the string conversions.                                   *)
(***************************************************************************)
SeqsUpTo(S, n) == UNION {[1 .. k -> S] : k \in 0 .. n}

\* const char* arguments: NULL, or a NUL-terminated buffer of any bytes.
CStringArgs ==
    {NULL} \cup {Ref([addr |-> "in", mem |-> b \o <<NUL>>]) :
                    b \in SeqsUpTo({"a", "xC3", "xA9", "xFF"}, MaxLen)}

\* NSString* arguments: nil, or a string, U+0000 among its characters.
NSStringArgs == {nil} \cup {Ref(c) : c \in SeqsUpTo({"a", "U+00E9", NUL}, MaxLen)}

\* se::Value arguments: strings of any bytes (a std::string may hold NUL),
\* objects with a null or non-null se::Object*, and the other types.
SeValueArgs ==
    {SeValue("String", b, NULL) : b \in SeqsUpTo({"a", "xC3", "xA9", NUL}, MaxLen)}
    \cup {SeValue("Object", <<>>, o) :
            o \in {NULL, Ref([function |-> TRUE]), Ref([function |-> FALSE])}}
    \cup {SeValue(ty, <<>>, NULL) : ty \in {"Undefined", "Null", "Number", "Boolean"}}

(***************************************************************************)
(* The inputs of the JSON conversions.                                     *)
(***************************************************************************)
Keys == {<<"a">>, <<NUL>>}

ScalarValues ==
    {JNull, JBool(TRUE), JBool(FALSE), JNum(0), JNum(10), JNum(907)}
    \cup {JStr(c) : c \in {<<>>, <<"a", NUL>>, <<"\"", "\\", "/">>, <<"U+00E9">>}}

\* Values JSON has no form for.
UnrepresentableValues == {JNaN, JDate}

NestedElems == {JNum(10), JStr(<<"a", NUL>>), JDate}

NestedValues ==
    {JArr(e) : e \in SeqsUpTo(NestedElems, MaxElems)}
    \cup {JDict(f) : f \in UNION {[K -> NestedElems] : K \in SUBSET Keys}}

Values == ScalarValues \cup UnrepresentableValues \cup NestedValues

Dictionaries == {JDict(f) : f \in UNION {[K -> Values] : K \in SUBSET Keys}}

\* NSDictionary* arguments.
DictArgs == {nil} \cup {Ref(d) : d \in Dictionaries}

CText(bytes) == Ref([addr |-> "in", mem |-> bytes \o <<NUL>>])

\* const char* arguments of JSONToDictionary: NULL, the texts
\* DictionaryToJSON produces, texts with an array at the top, and short
\* texts of any bytes.
JSONTextArgs ==
    {NULL}
    \cup {DictionaryToJSON(Ref(d), rev, "in").val :
            d \in {x \in Dictionaries : isValidJSONObject(x)}, rev \in BOOLEAN}
    \cup {CText(WriteJSON(JArr(e), FALSE)) :
            e \in SeqsUpTo({JNum(10), JStr(<<"a", NUL>>)}, MaxElems)}
    \cup {CText(<<"[", "1", ",", "2", ",", "3", "]">>),
          CText(<<"n", "o", "t", " ", "j", "s", "o", "n">>),
          CText(<<" ", "{", " ", "\"", "a", "\"", " ", ":", " ", "1", " ", "}", " ">>),
          CText(<<"{", "\"", "a", "\"", ":", "0", "1", "}">>),
          CText(<<"{", "\"", "a", "\"", ":", "1", ",", "\"", "a", "\"", ":", "2", "}">>)}
    \cup {CText(b) : b \in SeqsUpTo({"{", "}", "[", "]", "1", "\"", ":", "xFF"}, MaxText)}

(***************************************************************************)
(* One call at a time: a call is made when no result is pending, and the   *)
(* caller then drops the result.                                           *)
(***************************************************************************)
CallCreateNSString ==
    /\ fn = "none"
    /\ \E p \in CStringArgs :
        /\ fn' = "CreateNSString"
        /\ arg' = p
        /\ out' = Outcome(FALSE, CreateNSString(p), 0)
        /\ UNCHANGED dvars

CallCStringCopy ==
    /\ fn = "none"
    /\ \E s \in NSStringArgs : \E fresh \in HeapAddrs :
        /\ fn' = "CStringCopy"
        /\ arg' = s
        /\ out' = Outcome(FALSE, CStringCopy(s, fresh), 0)
        /\ UNCHANGED dvars

\* CreateNSString(CStringCopy(s)); the intermediate buffer is kept in buf.
CallRoundTripString ==
    /\ fn = "none"
    /\ \E s \in NSStringArgs : \E fresh \in HeapAddrs :
        /\ fn' = "CreateNSString(CStringCopy)"
        /\ arg' = s
        /\ out' = [raised |-> FALSE,
                   val |-> CreateNSString(CStringCopy(s, fresh)),
                   logs |-> 0,
                   buf |-> CStringCopy(s, fresh)]
        /\ UNCHANGED dvars

CallSeValueToNSString ==
    /\ fn = "none"
    /\ \E v \in SeValueArgs :
        /\ fn' = "SeValueToNSString"
        /\ arg' = v
        /\ out' = Outcome(FALSE, SeValueToNSString(v), 0)
        /\ UNCHANGED dvars

CallDictionaryToJSON ==
    /\ fn = "none"
    /\ \E d \in DictArgs : \E rev \in BOOLEAN : \E fresh \in HeapAddrs :
        /\ fn' = "DictionaryToJSON"
        /\ arg' = d
        /\ out' = DictionaryToJSON(d, rev, fresh)
        /\ UNCHANGED dvars

CallJSONToDictionary ==
    /\ fn = "none"
    /\ \E p \in JSONTextArgs :
        /\ fn' = "JSONToDictionary"
        /\ arg' = p
        /\ out' = JSONToDictionary(p)
        /\ UNCHANGED dvars

\* JSONToDictionary(DictionaryToJSON(d)): an exception in the first call
\* ends the whole; otherwise the second call's outcome, with the lines
\* both logged.
RoundTripJSON(d, rev, fresh) ==
    LET j == DictionaryToJSON(d, rev, fresh)
        r == JSONToDictionary(j.val)
    IN  IF j.raised THEN Outcome(TRUE, nil, j.logs)
        ELSE Outcome(r.raised, r.val, j.logs + r.logs)

CallRoundTripJSON ==
    /\ fn = "none"
    /\ \E d \in DictArgs : \E rev \in BOOLEAN : \E fresh \in HeapAddrs :
        /\ fn' = "JSONToDictionary(DictionaryToJSON)"
        /\ arg' = d
        /\ out' = RoundTripJSON(d, rev, fresh)
        /\ UNCHANGED dvars

\* The caller is done with the result.
Finish ==
    /\ fn # "none"
    /\ fn' = "none"
    /\ arg' = NULL
    /\ out' = Outcome(FALSE, NULL, 0)
    /\ UNCHANGED dvars

CInit ==
    /\ fn = "none"
    /\ arg = NULL
    /\ out = Outcome(FALSE, NULL, 0)

Init == DInit /\ CInit

Next ==
    \/ \E t \in Threads : Call(t)
    \/ \E t \in Threads : DispatchToMainThread(t)
    \/ \E t \in Threads : BlockEnd(t)
    \/ \E t \in Threads : Return(t)
    \/ AppStart
    \/ AppEnd
    \/ Drain

Spec == Init /\ [][Next]_vars

ConvNext ==
    \/ CallCreateNSString
    \/ CallCStringCopy
    \/ CallRoundTripString
    \/ CallSeValueToNSString
    \/ CallDictionaryToJSON
    \/ CallJSONToDictionary
    \/ CallRoundTripJSON
    \/ Finish

ConvSpec == Init /\ [][ConvNext]_vars

\* The scheduling the claims about eventual execution assume: every thread
\* that can finish the step it is in does so, and the main run loop, each
\* time it is idle with a pending block, eventually takes it.
Fairness ==
    /\ \A t \in Threads : WF_vars(DispatchToMainThread(t))
    /\ \A t \in Threads : WF_vars(BlockEnd(t))
    /\ \A t \in Threads : WF_vars(Return(t))
    /\ WF_vars(AppEnd)
    /\ SF_vars(Drain)

FairSpec == Init /\ [][Next]_vars /\ Fairness

(***************************************************************************)
(* Claims about DispatchToMainThread                                       *)
(***************************************************************************)
Created == 1 .. nblocks

RunsOf(b) == {i \in DOMAIN trace : trace[i].e = "run" /\ trace[i].b = b}

EnqsOf(b) == {i \in DOMAIN trace : trace[i].e = "enq" /\ trace[i].b = b}

InQueue(b) == \E i \in DOMAIN queue : queue[i] = b

\* The call of block b on thread t is past its if/else.
PastCheck(b, t) ==
    \/ b \in returned
    \/ \E i \in DOMAIN stack[t] :
          stack[t][i].k = "dispatch" /\ stack[t][i].b = b /\ stack[t][i].pc # "check"

\* Block b is running, or has run, directly inside its call on thread t.
NestedInCall(b, t) ==
    \/ b \in ended
    \/ \E i \in DOMAIN stack[t] :
          /\ stack[t][i] = Frame("dispatch", b, "invoked")
          /\ i < Len(stack[t])
          /\ stack[t][i + 1] = Frame("block", b, "body")

\* C1: a call of DispatchToMainThread on the main thread runs the callback
\* exactly once, on the main thread, inside the call (it has completed when
\* the call returns), and never puts it on the main queue.
C1_MainCallIsSynchronous ==
    \A b \in Created :
        caller[b] = MainThread =>
            /\ EnqsOf(b) = {}
            /\ ~InQueue(b)
            /\ Cardinality(RunsOf(b)) <= 1
            /\ \A i \in RunsOf(b) : trace[i].t = MainThread
            /\ PastCheck(b, MainThread) =>
                  /\ Cardinality(RunsOf(b)) = 1
                  /\ NestedInCall(b, MainThread)
            /\ b \in returned => b \in ended

C1_Witness ==
    \E b \in Created :
        /\ caller[b] = MainThread
        /\ b \in returned
        /\ b \in ended

\* C2: a call of DispatchToMainThread on a non-main thread never runs the
\* callback on the calling thread; the callback runs at most once, only on
\* the main thread and only after it was enqueued; and, the main thread
\* draining its queue fairly, it eventually runs there.
C2_WorkerSafety ==
    \A b \in Created :
        caller[b] \in Workers =>
            /\ Cardinality(RunsOf(b)) <= 1
            /\ Cardinality(EnqsOf(b)) <= 1
            /\ \A i \in RunsOf(b) :
                  /\ trace[i].t = MainThread
                  /\ \E j \in EnqsOf(b) : j < i
            /\ \A t \in Workers : \A i \in DOMAIN stack[t] : stack[t][i].k # "block"

C2_WorkerCallRunsOnMainOnce ==
    /\ []C2_WorkerSafety
    /\ \A b \in Blocks :
          (caller[b] \in Workers) ~> (Cardinality(RunsOf(b)) = 1 /\ b \in ended)

C2_Witness ==
    \E b \in Created :
        /\ caller[b] \in Workers
        /\ b \in returned
        /\ b \in ended
        /\ stack[MainThread] = <<>>

\* The next step of thread t needs no other thread.
CanProceed(t) ==
    ENABLED (DispatchToMainThread(t) \/ Return(t) \/ BlockEnd(t)
                \/ (t = MainThread /\ AppEnd))

\* C3: DispatchToMainThread never makes its caller wait: a thread inside
\* the call can always take the call's next step by itself, whatever the
\* main thread is doing, a call made from inside a callback running on the
\* main thread runs the inner callback nested, and no thread is ever stuck.
C3_NoWaitNoDeadlock ==
    \A t \in Threads :
        stack[t] # <<>> =>
            /\ CanProceed(t)
            /\ Top(t).k = "dispatch" => ENABLED (DispatchToMainThread(t) \/ Return(t))
            /\ (Top(t).k = "dispatch" /\ Top(t).pc # "check" /\ ~isMainThread(t))
                  => ENABLED Return(t)

\* A callback running on the main thread has called DispatchToMainThread
\* and the inner callback is running nested in it, while a worker's call
\* has returned with its block still pending.
C3_Witness ==
    /\ \E i \in DOMAIN stack[MainThread] :
          /\ i + 2 <= Len(stack[MainThread])
          /\ stack[MainThread][i].k = "block"
          /\ stack[MainThread][i + 1].k = "dispatch"
          /\ stack[MainThread][i + 2].k = "block"
    /\ \E b \in Created : caller[b] \in Workers /\ b \in returned /\ InQueue(b)

FirstRun(b) == CHOOSE i \in RunsOf(b) : \A j \in RunsOf(b) : i <= j

\* C10: the callbacks one non-main thread passes to DispatchToMainThread
\* run on the main thread in the order that thread submitted them.
C10_PerThreadFifo ==
    \A b1, b2 \in Created :
        (b1 < b2 /\ caller[b1] \in Workers /\ caller[b1] = caller[b2]
            /\ RunsOf(b2) # {})
        => (RunsOf(b1) # {} /\ FirstRun(b1) < FirstRun(b2))

\* Two callbacks of one worker have run in order, and a callback submitted
\* on the main thread ran before one a worker had enqueued earlier.
C10_Witness ==
    /\ \E b1, b2 \in Created :
          /\ b1 < b2
          /\ caller[b1] \in Workers
          /\ caller[b1] = caller[b2]
          /\ RunsOf(b2) # {}
    /\ \E b1, b2 \in Created :
          /\ caller[b1] \in Workers
          /\ caller[b2] = MainThread
          /\ \E i \in EnqsOf(b1) : \E j \in RunsOf(b2) :
                /\ i < j
                /\ \A k \in RunsOf(b1) : j < k


(***************************************************************************)
(* Claims about the conversions                                            *)
(***************************************************************************)
\* The bytes of the C string a non-NULL pointer refers to.
TextOf(p) == CStr(Deref(p).mem)

\* The text p refers to is UTF-8 and parses as JSON with an object at the top.
ParsesToObject(p) ==
    /\ p # NULL
    /\ Utf8Valid(TextOf(p))
    /\ ParseJSONText(TextOf(p)).ok
    /\ ParseJSONText(TextOf(p)).v.t = "NSDictionary"

\* C4: JSONToDictionary returns a dictionary exactly when its input is a
\* non-NULL text that parses as JSON with an object at the top; for NULL it
\* returns nil and logs nothing; for every other input it logs one line
\* and returns nil.
C4_JSONToDictionaryContract ==
    fn = "JSONToDictionary" =>
        /\ ~out.raised
        /\ out.val # nil <=> ParsesToObject(arg)
        /\ arg = NULL => (out.val = nil /\ out.logs = 0)
        /\ (arg # NULL /\ ~ParsesToObject(arg)) => (out.val = nil /\ out.logs = 1)
        /\ ParsesToObject(arg) => out.val = Ref(ParseJSONText(TextOf(arg)).v)

\* What holds of JSONToDictionary: the contract of C4 on every input that
\* is NULL or UTF-8.
JSONToDictionaryOnUtf8 ==
    (fn = "JSONToDictionary" /\ (arg = NULL \/ Utf8Valid(TextOf(arg))))
        => C4_JSONToDictionaryContract

\* C5: DictionaryToJSON never ends in an exception; for nil it returns NULL
\* and logs nothing; for a dictionary holding what JSON cannot represent it
\* logs one line and returns NULL; it returns a text only for a dictionary
\* that serializes, and that text is the dictionary's JSON.
C5_DictionaryToJSONContract ==
    fn = "DictionaryToJSON" =>
        /\ ~out.raised
        /\ arg = nil => (out.val = NULL /\ out.logs = 0)
        /\ (arg # nil /\ ~isValidJSONObject(Deref(arg)))
              => (out.val = NULL /\ out.logs = 1)
        /\ out.val # NULL =>
              /\ arg # nil
              /\ isValidJSONObject(Deref(arg))
              /\ \E rev \in BOOLEAN : TextOf(out.val) = WriteJSON(Deref(arg), rev)

\* What holds of DictionaryToJSON: the contract of C5 on nil and on every
\* dictionary that is a valid JSON object.
DictionaryToJSONOnValid ==
    (fn = "DictionaryToJSON" /\ (arg = nil \/ isValidJSONObject(Deref(arg))))
        => C5_DictionaryToJSONContract

\* What the description of a scripting value is to be.
Described(val) ==
    IF isString(val) THEN Utf8Chars(val.str)
    ELSE IF isObject(val) /\ toObject(val) # NULL /\ isFunction(toObject(val))
         THEN JSFunctionText
    ELSE IF isObject(val) THEN JSObjectText
    ELSE UnknownJSValueText

\* C6: SeValueToNSString never returns nil, and returns the content of a
\* string value, "[JS Function]" for an object that is a function,
\* "[JS Object]" for any other object (a null object pointer included) and
\* "[Unknown JS Value]" otherwise.
C6_SeValueToNSStringTotal ==
    fn = "SeValueToNSString" =>
        /\ out.val # nil
        /\ (isString(arg) => Utf8Valid(arg.str)) => out.val = Ref(Described(arg))

\* What holds of SeValueToNSString: C6 on every value that is not a string
\* and on every string that is UTF-8 without a NUL.
SeValueToNSStringOnCStrings ==
    (fn = "SeValueToNSString"
        /\ (isString(arg) => (Utf8Valid(arg.str) /\ \A i \in DOMAIN arg.str : arg.str[i] # NUL)))
        => C6_SeValueToNSStringTotal

\* C7 as stated: CreateNSString(CStringCopy(s)) is s byte for byte for
\* every string s, one holding U+0000 included; the buffer in between is a
\* fresh allocation; nil goes to NULL and NULL to nil.
C7_RoundTripExact ==
    fn = "CreateNSString(CStringCopy)" =>
        /\ arg = nil => (out.buf = NULL /\ out.val = nil)
        /\ arg # nil =>
              /\ out.buf # NULL
              /\ Deref(out.buf).addr \in HeapAddrs
              /\ Deref(out.buf).addr # Deref(UTF8String(arg)).addr
              /\ out.val # nil
              /\ Utf8Encode(Deref(out.val)) = Utf8Encode(Deref(arg))

\* The characters of a string before its first U+0000.
RECURSIVE UpToNul(_)
UpToNul(chars) ==
    IF chars = <<>> \/ Head(chars) = NUL THEN <<>>
    ELSE <<Head(chars)>> \o UpToNul(Tail(chars))

\* C7, amended: CreateNSString(CStringCopy(s)) is the part of s before its
\* first U+0000, byte for byte, hence s itself when s holds no U+0000; the
\* buffer in between is a fresh allocation holding those bytes and a
\* terminator; nil goes to NULL and NULL to nil.
C7_RoundTripUpToNul ==
    fn = "CreateNSString(CStringCopy)" =>
        /\ arg = nil => (out.buf = NULL /\ out.val = nil)
        /\ arg # nil =>
              /\ out.buf # NULL
              /\ Deref(out.buf).addr \in HeapAddrs
              /\ Deref(out.buf).addr # Deref(UTF8String(arg)).addr
              /\ Deref(out.buf).mem = Utf8Encode(UpToNul(Deref(arg))) \o <<NUL>>
              /\ out.val # nil
              /\ Utf8Encode(Deref(out.val)) = Utf8Encode(UpToNul(Deref(arg)))
              /\ (\A i \in DOMAIN Deref(arg) : Deref(arg)[i] # NUL) => out.val = arg

C7_Witness ==
    /\ fn = "CreateNSString(CStringCopy)"
    /\ arg = Ref(<<"a", "U+00E9", "a">>)
    /\ out.val = arg
    /\ Deref(out.buf).mem = <<"a", "xC3", "xA9", "a", NUL>>

\* C8: for every dictionary m that is a valid JSON object,
\* JSONToDictionary(DictionaryToJSON(m)) returns a dictionary equal to m.
C8_JSONRoundTrip ==
    (fn = "JSONToDictionary(DictionaryToJSON)" /\ arg # nil
        /\ isValidJSONObject(Deref(arg)))
        => (~out.raised /\ out.val = arg /\ out.logs = 0)

\* A round trip of a dictionary with both keys, a string holding U+0000 and
\* a nested dictionary.
C8_Witness ==
    /\ fn = "JSONToDictionary(DictionaryToJSON)"
    /\ arg # nil
    /\ ~out.raised
    /\ out.val = arg
    /\ DOMAIN Deref(arg).d = Keys
    /\ Deref(arg).d[<<NUL>>] = JStr(<<"a", NUL>>)
    /\ Deref(arg).d[<<"a">>].t = "NSDictionary"
    /\ DOMAIN Deref(arg).d[<<"a">>].d = Keys

\* C9: no conversion call ends in an uncaught exception: each returns a
\* result or nil / NULL, whatever its input.
C9_NoCallRaises ==
    fn \in {"CreateNSString", "CStringCopy", "DictionaryToJSON", "JSONToDictionary"}
        => ~out.raised

=============================================================================
